---------------------------- MODULE Spec2Model ----------------------------
(***************************************************************************)
(* A model of timedb (src/timedb.go): an append-only store partitioned by  *)
(* local calendar day and table, a write path that caches one open file    *)
(* handle under the exclusive side of a sync.RWMutex, and a read path that *)
(* stitches the day partitions of a range into one byte stream (reader),   *)
(* tokenised into lines by a bufio.Scanner and filtered by Scanner.Scan.   *)
(*                                                                         *)
(* Bytes are one-character strings, a file is a sequence of bytes.         *)
(* Instants are integers counted in ticks: TicksPerSec ticks make a second *)
(* (so an instant can have a sub-second part) and SecPerDay seconds make a *)
(* calendar day.  The local time zone is fixed and has no clock changes.   *)
(***************************************************************************)
EXTENDS Integers, Sequences, FiniteSets, TLC

(***************************************************************************)
(* Bounds of the model.                                                    *)
(***************************************************************************)
\* calendar days are 0 .. MaxDay
MaxDay == 2
\* seconds in a calendar day (time.Hour * 24, scaled down)
SecPerDay == 2
\* ticks in a second (the sub-second resolution of time.Time, scaled down)
TicksPerSec == 2
\* capacity of the bufio.Scanner buffer (maxCapacity, 512 KiB, scaled down)
BufCap == 5
\* most lines a partition holds when the system starts
MaxLines == 2
\* most save calls one writer makes
MaxSaves == 2
\* most lines the first partition holds in the pagination scans
MaxPageLines == 3
\* largest offset and size a query is made with
MaxOffset == 2
MaxSize == 2
MaxRead == 5
MaxLate == 2

TicksPerDay == SecPerDay * TicksPerSec
Days == 0 .. MaxDay
Instants == 0 .. ((MaxDay + 1) * TicksPerDay - 1)
Tables == {"logs"}
Paths == Days \X Tables
Writers == {1, 2}
Scanners == {1}

(***************************************************************************)
(* time.Time                                                               *)
(***************************************************************************)
\* time.Time{}: the zero instant, before every instant of the model
ZeroTime == 0 - TicksPerDay

\* t.Unix(): the whole seconds of t, the sub-second part dropped
Unix(t) == t \div TicksPerSec

\* time.Unix(sec, 0)
TimeUnix(sec) == sec * TicksPerSec

\* t.Add(time.Hour * 24)
AddDay(t) == t + TicksPerDay

\* (a variant in which later days get earlier directories)
getDirBack(t) == MaxDay - (t \div TicksPerDay)

\* t.Format("2006-01-02"): the local calendar day of t
getDir(t) == t \div TicksPerDay

\* (a variant that leaves the day out of the path)
getTablePathFlat(t, table) == <<0, table>>

getTablePath(t, table) == <<getDir(t), table>>

\* the nil *os.File and the empty writePath
NoPath == <<>>

(***************************************************************************)
(* Record codec: fmt.Fprintf("%d %s\n") and Scanner.Data                   *)
(***************************************************************************)
DigitChars == <<"0", "1", "2", "3", "4", "5", "6", "7", "8", "9">>

IsDigit(c) == \E i \in 1 .. 10 : DigitChars[i] = c

DigitVal(c) == (CHOOSE i \in 1 .. 10 : DigitChars[i] = c) - 1

RECURSIVE FormatNat(_)
FormatNat(n) ==
    IF n < 10 THEN <<DigitChars[n + 1]>>
    ELSE FormatNat(n \div 10) \o <<DigitChars[(n % 10) + 1]>>

\* the verb %d
FormatInt(n) == IF n < 0 THEN <<"-">> \o FormatNat(0 - n) ELSE FormatNat(n)

RECURSIVE DigitsVal(_)
DigitsVal(b) ==
    IF b = <<>> THEN 0
    ELSE 10 * DigitsVal(SubSeq(b, 1, Len(b) - 1)) + DigitVal(b[Len(b)])

\* strconv.ParseInt(b, 10, 64): an optional sign, then one or more digits
ParseInt(b) ==
    LET signed == b # <<>> /\ b[1] \in {"+", "-"}
        digits == IF signed THEN Tail(b) ELSE b
    IN  IF digits = <<>> \/ \E i \in 1 .. Len(digits) : ~IsDigit(digits[i])
        THEN [ok |-> FALSE, val |-> 0]
        ELSE [ok |-> TRUE,
              val |-> IF signed /\ b[1] = "-" THEN 0 - DigitsVal(digits)
                      ELSE DigitsVal(digits)]

\* strings.Index(line, c): 0-based, -1 when absent
IndexByte(b, c) ==
    IF \E i \in 1 .. Len(b) : b[i] = c
    THEN (CHOOSE i \in 1 .. Len(b) : b[i] = c /\ \A j \in 1 .. (i - 1) : b[j] # c) - 1
    ELSE 0 - 1

\* strings.Contains(b, sub)
Contains(b, sub) ==
    \E i \in 0 .. (Len(b) - Len(sub)) : SubSeq(b, i + 1, i + Len(sub)) = sub

\* the line save appends for (t, data)
EncodeLine(t, data) == FormatInt(Unix(t)) \o <<" ">> \o data \o <<"\n">>

\* DataPoint{}
ZeroDataPoint == [Time |-> ZeroTime, Text |-> <<>>]

\* (a variant that returns the zero record for a bad line without recording it)
DataSilent(line, scErr, Error) ==
    LET i == IndexByte(line, " ")
        epoch == ParseInt(SubSeq(line, 1, i))
    IN  IF scErr \notin {"nil", "EOF"} \/ i = 0 - 1 \/ ~epoch.ok
        THEN [dp |-> ZeroDataPoint, Error |-> Error]
        ELSE [dp |-> [Time |-> TimeUnix(epoch.val),
                      Text |-> SubSeq(line, i + 1, Len(line))],
              Error |-> Error]

\* Scanner.Data on the line `line` with the tokenizer's error `scErr` and the
\* sticky error `Error`: the record returned and the sticky error afterwards
Data(line, scErr, Error) ==
    LET i == IndexByte(line, " ")
        epoch == ParseInt(SubSeq(line, 1, i))
    IN  IF scErr \notin {"nil", "EOF"}
        THEN [dp |-> ZeroDataPoint, Error |-> scErr]
        ELSE IF i = 0 - 1
        THEN [dp |-> ZeroDataPoint, Error |-> "invalidLine"]
        ELSE IF ~epoch.ok
        THEN [dp |-> ZeroDataPoint, Error |-> "parseErr"]
        ELSE [dp |-> [Time |-> TimeUnix(epoch.val),
                      Text |-> SubSeq(line, i + 1, Len(line))],
              Error |-> Error]

(***************************************************************************)
(* reader: the chunked multi-file reader                                   *)
(***************************************************************************)
Min(a, b) == IF a < b THEN a ELSE b

\* the reader db.reader builds for Query: every other field has its zero value
NewReader(start, end, table, offset, limit) ==
    [table |-> table, start |-> start, end |-> end, offset |-> offset,
     limit |-> limit, index |-> 0, filter |-> <<>>, current |-> ZeroTime,
     file |-> NoPath, pos |-> 0, keepFile |-> FALSE, buf |-> <<>>]

\* reader.nextFile, with reader.open inlined: `exist` are the partitions on
\* disk, `bad` those whose open fails with an error other than "not exist".
\* open closes the file of the previous partition before it opens the next.
RECURSIVE nextFile(_, _, _)
nextFile(r, exist, bad) ==
    LET cur == IF r.current < r.start THEN r.start ELSE AddDay(r.current)
        path == getTablePath(cur, r.table)
        closed == [r EXCEPT !.current = cur, !.file = NoPath]
    IN  IF cur > r.end
        THEN [r |-> [r EXCEPT !.current = cur], err |-> "EOF"]
        ELSE IF path \notin exist
        THEN nextFile(closed, exist, bad)
        ELSE IF path \in bad
        THEN [r |-> closed, err |-> "openErr"]
        ELSE [r |-> [closed EXCEPT !.file = path, !.pos = 0], err |-> "nil"]

\* (a variant that forgets the carry-over when it moves to the next file)
RECURSIVE readerReadLossy(_, _, _, _, _)
readerReadLossy(r, l, fs, exist, bad) ==
    IF Len(r.buf) >= l
    THEN [r |-> [r EXCEPT !.buf = SubSeq(r.buf, l + 1, Len(r.buf))],
          p |-> SubSeq(r.buf, 1, l), err |-> "nil"]
    ELSE LET nf == IF r.keepFile THEN [r |-> r, err |-> "nil"]
                   ELSE nextFile([r EXCEPT !.buf = <<>>], exist, bad)
         IN  IF nf.err # "nil"
             THEN [r |-> nf.r,
                   p |-> IF nf.err = "EOF" THEN nf.r.buf ELSE <<>>,
                   err |-> nf.err]
             ELSE LET r1 == nf.r
                      data == fs[r1.file]
                      n == Min(l, Len(data) - r1.pos)
                  IN  readerReadLossy([r1 EXCEPT !.pos = @ + n,
                                                 !.keepFile = (n > 0),
                                                 !.buf = @ \o SubSeq(data, r1.pos + 1, r1.pos + n)],
                                      l, fs, exist, bad)

\* reader.Read(p) with len(p) = l, between RLock and RUnlock: the bytes copied
\* to p, the error returned and the reader afterwards.  `fs` gives the content
\* of each partition.
RECURSIVE readerRead(_, _, _, _, _)
readerRead(r, l, fs, exist, bad) ==
    IF Len(r.buf) >= l
    THEN [r |-> [r EXCEPT !.buf = SubSeq(r.buf, l + 1, Len(r.buf))],
          p |-> SubSeq(r.buf, 1, l), err |-> "nil"]
    ELSE LET nf == IF r.keepFile THEN [r |-> r, err |-> "nil"]
                   ELSE nextFile(r, exist, bad)
         IN  IF nf.err # "nil"
             THEN [r |-> nf.r,
                   p |-> IF nf.err = "EOF" THEN nf.r.buf ELSE <<>>,
                   err |-> nf.err]
             ELSE LET r1 == nf.r
                      data == fs[r1.file]
                      \* r.file.Read(b): 0 bytes and io.EOF at the end of the file
                      n == Min(l, Len(data) - r1.pos)
                  IN  readerRead([r1 EXCEPT !.pos = @ + n,
                                            !.keepFile = (n > 0),
                                            !.buf = @ \o SubSeq(data, r1.pos + 1, r1.pos + n)],
                                 l, fs, exist, bad)

(***************************************************************************)
(* bufio.Scanner with the split function bufio.ScanLines                   *)
(***************************************************************************)
dropCR(b) == IF b # <<>> /\ b[Len(b)] = "\r" THEN SubSeq(b, 1, Len(b) - 1) ELSE b

ScanLines(data, atEOF) ==
    LET i == IndexByte(data, "\n")
    IN  IF atEOF /\ data = <<>> THEN [advance |-> 0, token |-> <<>>, has |-> FALSE]
        ELSE IF i >= 0
        THEN [advance |-> i + 1, token |-> dropCR(SubSeq(data, 1, i)), has |-> TRUE]
        ELSE IF atEOF
        THEN [advance |-> Len(data), token |-> dropCR(data), has |-> TRUE]
        ELSE [advance |-> 0, token |-> <<>>, has |-> FALSE]

\* bufio.NewScanner(r) after s.Buffer(buf, maxCapacity): data is buf[start:end]
NewBufio == [data |-> <<>>, start |-> 0, err |-> "nil", token |-> <<>>]

\* bufio.Scanner.Scan up to its next return or its next call of Read:
\* res is "token" (returns true), "false" (returns false) or "read"
bufioScan(b) ==
    LET atEOF == b.err # "nil"
        sp == ScanLines(b.data, atEOF)
        tried == b.data # <<>> \/ atEOF
        b0 == IF tried THEN [b EXCEPT !.token = <<>>] ELSE b
        shift == b.start > 0 /\ (b.start + Len(b.data) = BufCap \/ b.start > BufCap \div 2)
        st == IF shift THEN 0 ELSE b.start
    IN  IF tried /\ sp.has
        THEN [b |-> [b EXCEPT !.data = SubSeq(b.data, sp.advance + 1, Len(b.data)),
                              !.start = @ + sp.advance,
                              !.token = sp.token],
              res |-> "token"]
        ELSE IF atEOF
        THEN [b |-> [b0 EXCEPT !.data = <<>>, !.start = 0], res |-> "false"]
        ELSE IF st + Len(b.data) = BufCap
        THEN [b |-> [b0 EXCEPT !.start = st, !.err = "tooLong"], res |-> "false"]
        ELSE [b |-> [b0 EXCEPT !.start = st], res |-> "read"]

\* len(p) of the Read call bufio.Scanner.Scan makes: s.buf[s.end:len(s.buf)]
readLen(b) == BufCap - (b.start + Len(b.data))

\* the bytes and the error of a Read call arrive
bufioFill(b, p, err) ==
    [b EXCEPT !.data = @ \o p, !.err = IF err # "nil" THEN err ELSE @]

\* bufio.Scanner.Err
bufioErr(b) == IF b.err = "EOF" THEN "nil" ELSE b.err

(***************************************************************************)
(* Scanner.Scan                                                            *)
(***************************************************************************)
\* (a variant that stops one record late)
LimitReachedLate(r) == r.limit > 0 /\ r.index > r.limit

LimitReached(r) == r.limit > 0 /\ r.index >= r.limit

TimeFloorSkips(dp, r) == dp.Time < r.start

\* (a variant that looks for the filter in the text after the timestamp only)
FilterSkipsText(line, r) ==
    r.filter # <<>>
    /\ ~Contains(SubSeq(line, IndexByte(line, " ") + 2, Len(line)), r.filter)

FilterSkips(line, r) == r.filter # <<>> /\ ~Contains(line, r.filter)

\* the Scanner Query returns
NewScanner(start, end, table, offset, size) ==
    [pc |-> "idle", ret |-> "none",
     r |-> NewReader(start, end, table, offset, offset + size),
     b |-> NewBufio, Error |-> "nil", emitted |-> <<>>, seen |-> {}]

NoScanner == [NewScanner(0, 0, "logs", 0, 0) EXCEPT !.pc = "none"]

\* one pass of the loop of Scanner.Scan, up to its return, its `continue` or
\* the Read call the tokenizer makes (pc "rlock")
ScanPass(s) ==
    IF LimitReached(s.r)
    THEN [s EXCEPT !.pc = "idle", !.ret = "false"]
    ELSE LET bs == bufioScan(s.b)
             d == Data(bs.b.token, bufioErr(bs.b), s.Error)
         IN  IF bs.res = "false"
             THEN [s EXCEPT !.b = bs.b, !.pc = "idle", !.ret = "false"]
             ELSE IF bs.res = "read"
             THEN [s EXCEPT !.b = bs.b, !.pc = "rlock"]
             ELSE IF TimeFloorSkips(d.dp, s.r) \/ FilterSkips(bs.b.token, s.r)
             THEN [s EXCEPT !.b = bs.b, !.Error = d.Error]
             ELSE IF s.r.index < s.r.offset
             THEN [s EXCEPT !.b = bs.b, !.Error = d.Error, !.r.index = @ + 1]
             ELSE [s EXCEPT !.b = bs.b, !.Error = d.Error, !.r.index = @ + 1,
                            !.pc = "idle", !.ret = "true",
                            !.emitted = Append(@, bs.b.token)]

(***************************************************************************)
(* State                                                                   *)
(***************************************************************************)
VARIABLES
    files,        \* the content of every partition file, <<>> while absent
    present,      \* the partition files that exist on disk
    unreadable,   \* the partition files whose open for reading is refused
    dbFile,       \* DB.file: the partition the cached write handle is open on
    dbWritePath,  \* DB.writePath
    wHolder,      \* DB.mutex: the save call that holds or is taking the write lock, 0 if none
    readers,      \* DB.mutex: the scanners that hold the read lock
    wr,           \* the save call of each writer thread
    sc,           \* each Scanner with its reader and its bufio.Scanner
    committed,    \* the (t, table, data) of the save calls that returned nil
    handles,      \* the partitions of the write file handles the process holds open
    opens,        \* the number of os.OpenFile calls of save that returned a handle
    saved,        \* the target partitions of the save calls that returned nil, in order
    rd            \* a reader whose Read is called directly, with what its calls returned

vars == <<files, present, unreadable, dbFile, dbWritePath, wHolder, readers,
          wr, sc, committed, handles, opens, saved, rd>>

diskVars == <<files, present, unreadable>>
dbVars == <<dbFile, dbWritePath>>
lockVars == <<wHolder, readers>>
logVars == <<committed, handles, opens, saved, rd>>

\* db.reader(start, end, table, 0, 0) used as an io.Reader: out are the bytes
\* its Read calls returned up to and including the first io.EOF, exact tells
\* that every call that returned no error returned len(p) bytes, late lists
\* what the calls after the first io.EOF returned
NewByteReader(start, end, table) ==
    [pc |-> "open", r |-> NewReader(start, end, table, 0, 0), out |-> <<>>,
     eof |-> FALSE, exact |-> TRUE, late |-> <<>>]

NoByteReader == [NewByteReader(0, 0, "logs") EXCEPT !.pc = "none"]

NewWriter == [pc |-> "idle", t |-> 0, table |-> "logs", data |-> <<>>,
              n |-> 0, ret |-> "none"]

\* New(path), an empty or populated data directory, no save or Query made yet
InitWith(Images, Bad) ==
    /\ \E img \in Images :
          /\ files = img.files
          /\ present = img.present
          /\ unreadable \in {u \in Bad : u \subseteq img.present}
    /\ dbFile = NoPath
    /\ dbWritePath = NoPath
    /\ wHolder = 0
    /\ readers = {}
    /\ wr = [w \in Writers |-> NewWriter]
    /\ sc = [s \in Scanners |-> NoScanner]
    /\ committed = {}
    /\ handles = <<>>
    /\ opens = 0
    /\ saved = <<>>
    /\ rd = NoByteReader

(***************************************************************************)
(* sync.RWMutex                                                            *)
(***************************************************************************)
\* (a variant in which reader.Read takes no lock)
RLockNever == TRUE

\* RLock returns only while no Lock call holds or is taking the write lock
RLockFree == wHolder = 0

\* Lock first takes the writers' mutex ...
LockFree == wHolder = 0

\* ... and then waits for the read locks held to be released
LockDrained == readers = {}

(***************************************************************************)
(* DB.save, called by Save (t = time.Now()) and Insert                     *)
(***************************************************************************)
\* the call, up to db.mutex.Lock()
SaveCall(w, Times, Texts) ==
    /\ wr[w].pc \in {"idle", "returned"}
    /\ wr[w].n < MaxSaves
    /\ \E t \in Times, table \in Tables, data \in Texts :
          wr' = [wr EXCEPT ![w] = [pc |-> "lock", t |-> t, table |-> table,
                                   data |-> data, n |-> @.n + 1, ret |-> "none"]]
    /\ UNCHANGED <<diskVars, dbVars, lockVars, sc, logVars>>

\* db.mutex.Lock(): new read locks are refused from here on
SaveLock(w) ==
    /\ wr[w].pc = "lock"
    /\ LockFree
    /\ wHolder' = w
    /\ wr' = [wr EXCEPT ![w].pc = "drain"]
    /\ UNCHANGED <<diskVars, dbVars, readers, sc, logVars>>

\* db.mutex.Lock() returns
SaveLocked(w) ==
    /\ wr[w].pc = "drain"
    /\ LockDrained
    /\ wr' = [wr EXCEPT ![w].pc = "switch"]
    /\ UNCHANGED <<diskVars, dbVars, lockVars, sc, logVars>>

\* (a variant in which save reopens the file on every call)
NeedsOpenAlways(fileName) == TRUE

\* db.file == nil || db.writePath != fileName
NeedsOpen(fileName) == dbFile = NoPath \/ dbWritePath # fileName

\* (a variant in which the cached handle is dropped without being closed)
FileCloseLeak(h, f) == h

\* db.file.Close(): the process no longer holds the handle on f
FileClose(h, f) ==
    LET i == CHOOSE i \in 1 .. Len(h) : h[i] = f
    IN  SubSeq(h, 1, i - 1) \o SubSeq(h, i + 1, Len(h))

\* the cache test and, on a miss, the close of the cached handle
SaveSwitch(w) ==
    LET fileName == getTablePath(wr[w].t, wr[w].table)
    IN  /\ wr[w].pc = "switch"
        /\ IF NeedsOpen(fileName)
           THEN /\ handles' = IF dbFile # NoPath THEN FileClose(handles, dbFile)
                                                 ELSE handles
                /\ dbFile' = NoPath
                /\ wr' = [wr EXCEPT ![w].pc = "open"]
                /\ UNCHANGED dbWritePath
           ELSE /\ wr' = [wr EXCEPT ![w].pc = "append"]
                /\ UNCHANGED <<dbVars, handles>>
        /\ UNCHANGED <<diskVars, lockVars, sc, committed, opens, saved, rd>>

\* os.MkdirAll and os.OpenFile; either call may fail, and then save returns
\* its error without db.mutex.Unlock()
SaveOpen(w) ==
    LET fileName == getTablePath(wr[w].t, wr[w].table)
    IN  /\ wr[w].pc = "open"
        /\ \/ /\ wr' = [wr EXCEPT ![w].pc = "returned", ![w].ret = "mkdirErr"]
              /\ UNCHANGED <<diskVars, dbVars, handles, opens>>
           \/ /\ wr' = [wr EXCEPT ![w].pc = "returned", ![w].ret = "openErr"]
              /\ UNCHANGED <<diskVars, dbVars, handles, opens>>
           \/ /\ dbFile' = fileName
              /\ dbWritePath' = fileName
              /\ present' = present \cup {fileName}
              /\ handles' = Append(handles, fileName)
              /\ opens' = opens + 1
              /\ wr' = [wr EXCEPT ![w].pc = "append"]
              /\ UNCHANGED <<files, unreadable>>
        /\ UNCHANGED <<lockVars, sc, committed, saved, rd>>

\* fmt.Fprintf(db.file, "%d %s\n", t.Unix(), data); on failure save returns
\* its error without db.mutex.Unlock()
SaveAppend(w) ==
    /\ wr[w].pc = "append"
    /\ \/ /\ files' = [files EXCEPT ![dbFile] = @ \o EncodeLine(wr[w].t, wr[w].data)]
          /\ wr' = [wr EXCEPT ![w].pc = "unlock"]
       \/ /\ wr' = [wr EXCEPT ![w].pc = "returned", ![w].ret = "writeErr"]
          /\ UNCHANGED files
    /\ UNCHANGED <<present, unreadable, dbVars, lockVars, sc, logVars>>

\* db.mutex.Unlock(); return nil
SaveUnlock(w) ==
    /\ wr[w].pc = "unlock"
    /\ wHolder' = 0
    /\ wr' = [wr EXCEPT ![w].pc = "returned", ![w].ret = "nil"]
    /\ committed' = committed \cup {[t |-> wr[w].t, table |-> wr[w].table, data |-> wr[w].data]}
    /\ saved' = Append(saved, getTablePath(wr[w].t, wr[w].table))
    /\ UNCHANGED <<diskVars, dbVars, readers, sc, handles, opens, rd>>

(***************************************************************************)
(* Query, Scanner.Scan and reader.Read                                     *)
(***************************************************************************)
Query(s, Starts, Ends, Offsets, Sizes) ==
    /\ sc[s].pc = "none"
    /\ \E start \in Starts, end \in Ends, table \in Tables,
          offset \in Offsets, size \in Sizes :
          sc' = [sc EXCEPT ![s] = [NewScanner(start, end, table, offset, size)
                                     EXCEPT !.seen = committed]]
    /\ UNCHANGED <<diskVars, dbVars, lockVars, wr, logVars>>

\* the caller calls Scan
ScanCall(s) ==
    /\ sc[s].pc = "idle"
    /\ sc' = [sc EXCEPT ![s].pc = "scan"]
    /\ UNCHANGED <<diskVars, dbVars, lockVars, wr, logVars>>

\* Scan runs to its return, a `continue` or the tokenizer's next Read
Scan(s) ==
    /\ sc[s].pc = "scan"
    /\ sc' = [sc EXCEPT ![s] = ScanPass(sc[s])]
    /\ UNCHANGED <<diskVars, dbVars, lockVars, wr, logVars>>

\* reader.Read: r.db.mutex.RLock()
ReadRLock(s) ==
    /\ sc[s].pc = "rlock"
    /\ RLockFree
    /\ readers' = readers \cup {s}
    /\ sc' = [sc EXCEPT ![s].pc = "read"]
    /\ UNCHANGED <<diskVars, dbVars, wHolder, wr, logVars>>

\* reader.Read: the body and the deferred RUnlock; the bytes reach the tokenizer
Read(s) ==
    LET got == readerRead(sc[s].r, readLen(sc[s].b), files, present, unreadable)
    IN  /\ sc[s].pc = "read"
        /\ readers' = readers \ {s}
        /\ sc' = [sc EXCEPT ![s].r = got.r,
                            ![s].b = bufioFill(@, got.p, got.err),
                            ![s].pc = "scan"]
        /\ UNCHANGED <<diskVars, dbVars, wHolder, wr, logVars>>

\* Scanner.SetFilter, called before the first Scan
SetFilter(s, Filters) ==
    /\ sc[s].pc = "idle"
    /\ sc[s].ret = "none"
    /\ sc[s].r.filter = <<>>
    /\ \E v \in Filters : sc' = [sc EXCEPT ![s].r.filter = v]
    /\ UNCHANGED <<diskVars, dbVars, lockVars, wr, logVars>>

\* Scanner.SetFilter, called at any time between two Scan calls
SetFilterAgain(s, Filters) ==
    /\ sc[s].pc = "idle"
    /\ \E v \in Filters \ {sc[s].r.filter} : sc' = [sc EXCEPT ![s].r.filter = v]
    /\ UNCHANGED <<diskVars, dbVars, lockVars, wr, logVars>>

\* db.reader(start, end, table, offset, limit), as Query calls it
ByteReader(Starts, Ends) ==
    /\ rd.pc = "none"
    /\ \E start \in Starts, end \in Ends, table \in Tables :
          rd' = NewByteReader(start, end, table)
    /\ UNCHANGED <<diskVars, dbVars, lockVars, wr, sc, committed, handles, opens, saved>>

\* reader.Read(p) with len(p) in Lens, from RLock to the deferred RUnlock
Pull(Lens) ==
    /\ rd.pc = "open"
    /\ Len(rd.late) < MaxLate
    /\ RLockFree
    /\ \E l \in Lens :
          LET got == readerRead(rd.r, l, files, present, unreadable)
          IN  rd' = IF rd.eof
                    THEN [rd EXCEPT !.r = got.r,
                                    !.late = Append(@, [p |-> got.p, err |-> got.err])]
                    ELSE [rd EXCEPT !.r = got.r,
                                    !.out = @ \o got.p,
                                    !.eof = (got.err = "EOF"),
                                    !.exact = @ /\ (got.err = "nil" => Len(got.p) = l)]
    /\ UNCHANGED <<diskVars, dbVars, lockVars, wr, sc, committed, handles, opens, saved>>

(***************************************************************************)
(* Specifications                                                          *)
(***************************************************************************)
EmptyDisk == [files |-> [p \in Paths |-> <<>>], present |-> {}]

\* Writers and a scanner share one DB that starts on an empty directory; a
\* query is made for one instant, as in the README and BenchmarkRead.
Init == InitWith({EmptyDisk}, {{}})

WriterStep(w) ==
    \/ SaveCall(w, {1, TicksPerDay}, {<<"a">>})
    \/ SaveLock(w)
    \/ SaveLocked(w)
    \/ SaveSwitch(w)
    \/ SaveOpen(w)
    \/ SaveAppend(w)
    \/ SaveUnlock(w)

ScannerStep(s) ==
    \/ \E t \in {1, TicksPerDay} : Query(s, {t}, {t}, {0}, {0})
    \/ Query(s, {0}, {TicksPerDay}, {0}, {0})
    \/ ScanCall(s)
    \/ Scan(s)
    \/ ReadRLock(s)
    \/ Read(s)

Next == (\E w \in Writers : WriterStep(w)) \/ (\E s \in Scanners : ScannerStep(s))

Spec == Init /\ [][Next]_vars

\* every thread that can take a step eventually takes one
FairSpec ==
    /\ Spec
    /\ \A w \in Writers : WF_vars(WriterStep(w))
    /\ \A s \in Scanners : WF_vars(ScannerStep(s))
(***************************************************************************)
(* Disk images a scan can start from                                       *)
(***************************************************************************)
\* the sequences of at most n elements of S
RECURSIVE SeqsUpTo(_, _)
SeqsUpTo(S, n) ==
    IF n = 0 THEN {<<>>}
    ELSE LET shorter == SeqsUpTo(S, n - 1)
         IN  shorter \cup {Append(q, x) : q \in {q \in shorter : Len(q) = n - 1}, x \in S}

RECURSIVE Flatten(_)
Flatten(lines) == IF lines = <<>> THEN <<>> ELSE Head(lines) \o Flatten(Tail(lines))

\* lines written out-of-band that fail to decode: no space, non-integer prefix
MalformedLines == {<<"a", "\n">>, <<"x", " ", "1", "\n">>}

\* each day's partition of "logs" is absent or holds up to n saved lines
RangeImages(n) ==
    LET Choices == {<<>>} \cup {<<q>> : q \in SeqsUpTo(0 .. (SecPerDay - 1), n) \ {<<>>}}
        line(d, i) == EncodeLine(TimeUnix(d * SecPerDay + i), <<"a">>)
        data(d, q) == Flatten([k \in 1 .. Len(q) |-> line(d, q[k])])
    IN  {[files |-> [p \in Paths |-> IF c[p[1]] = <<>> THEN <<>>
                                     ELSE data(p[1], c[p[1]][1])],
          present |-> {p \in Paths : c[p[1]] # <<>>}] :
            c \in [Days -> Choices]}

\* day 0 holds up to n lines, saved in its first two seconds or malformed;
\* day 1 is absent or holds one saved line
PageImages(n) ==
    LET kinds == {EncodeLine(TimeUnix(0), <<"a">>), EncodeLine(TimeUnix(1), <<"a">>)}
                 \cup MalformedLines
        next == EncodeLine(TimeUnix(SecPerDay), <<"a">>)
    IN  {[files |-> [p \in Paths |-> IF p[1] = 0 THEN Flatten(q)
                                     ELSE IF p[1] = 1 /\ two THEN next ELSE <<>>],
          present |-> {p \in Paths : p[1] = 0 \/ (p[1] = 1 /\ two)}] :
            q \in SeqsUpTo(kinds, n), two \in BOOLEAN}

\* each day's partition of "logs" is absent or holds up to n lines saved in
\* the first second of the day
ByteImages(n) ==
    LET line(d) == EncodeLine(TimeUnix(d * SecPerDay), <<"a">>)
    IN  {[files |-> [p \in Paths |-> Flatten([k \in 1 .. c[p[1]] |-> line(p[1])])],
          present |-> {p \in Paths : c[p[1]] > 0}] :
            c \in [Days -> 0 .. n]}

\* One scan, no offset or limit, over any range of a populated directory in
\* which the open of at most one partition is refused.
RangeInit == InitWith(RangeImages(MaxLines), {{}} \cup {{p} : p \in Paths})

RangeNext ==
    \E s \in Scanners :
        \/ \E start \in Instants :
              Query(s, {start}, {end \in Instants : start <= end}, {0}, {0})
        \/ ScanCall(s)
        \/ Scan(s)
        \/ ReadRLock(s)
        \/ Read(s)

RangeSpec == RangeInit /\ [][RangeNext]_vars

\* One scan with an offset, a size and possibly a filter set before the first
\* Scan, over a directory whose first partition may hold malformed lines.
PageInit == InitWith(PageImages(MaxPageLines), {{}})

PageNext ==
    \E s \in Scanners :
        \/ Query(s, {0, TimeUnix(1)}, {(MaxDay + 1) * TicksPerDay - 1},
                 0 .. MaxOffset, 0 .. MaxSize)
        \/ SetFilter(s, {<<"1">>})
        \/ ScanCall(s)
        \/ Scan(s)
        \/ ReadRLock(s)
        \/ Read(s)

PageSpec == PageInit /\ [][PageNext]_vars

\* One reader over a populated directory, every partition readable, whose
\* Read is called with buffers of 1 to MaxRead bytes until io.EOF and then
\* again.
ByteInit == InitWith(ByteImages(MaxLines), {{}})

ByteNext ==
    \/ \E start \in {0, 1, TicksPerDay} :
          ByteReader({start}, {end \in {TicksPerDay, (MaxDay + 1) * TicksPerDay - 1} :
                                 start <= end})
    \/ Pull(1 .. MaxRead)

ByteSpec == ByteInit /\ [][ByteNext]_vars

\* One scan whose filter the caller changes between Scan calls: to the empty
\* filter, to one that matches a timestamp, to one that matches a text.
FilterNext ==
    \E s \in Scanners :
        \/ Query(s, {0, TimeUnix(1)}, {(MaxDay + 1) * TicksPerDay - 1},
                 0 .. MaxOffset, {0, MaxSize})
        \/ SetFilterAgain(s, {<<>>, <<"1">>, <<"a">>})
        \/ ScanCall(s)
        \/ Scan(s)
        \/ ReadRLock(s)
        \/ Read(s)

FilterSpec == PageInit /\ [][FilterNext]_vars

\* One scan from the zero time.Time or from the first instant of the data,
\* with an offset and a size, over a directory whose first partition may hold
\* malformed lines.
EpochNext ==
    \E s \in Scanners :
        \/ Query(s, {ZeroTime, 0}, {(MaxDay + 1) * TicksPerDay - 1},
                 0 .. MaxOffset, 0 .. MaxSize)
        \/ ScanCall(s)
        \/ Scan(s)
        \/ ReadRLock(s)
        \/ Read(s)

EpochSpec == PageInit /\ [][EpochNext]_vars

\* the first partition is absent or holds a saved line, a line that fills the
\* tokenizer's buffer, or both
LateImages ==
    LET short == EncodeLine(0, <<"a">>)
        long == EncodeLine(0, [i \in 1 .. BufCap |-> "a"])
    IN  {[files |-> [p \in Paths |-> IF p[1] = 0 THEN c ELSE <<>>],
          present |-> {p \in Paths : p[1] = 0 /\ c # <<>>}] :
            c \in {<<>>, short, long, short \o long}}

\* A scan, from the zero time.Time or from the first instant of the data,
\* whose caller goes on calling Scan after it has returned false and changes
\* the filter between the calls, while a writer appends to partitions of the
\* range.
LateInit == InitWith(LateImages, {{}})

LateNext ==
    \/ \E w \in {1} : WriterStep(w)
    \/ \E s \in Scanners :
          \/ Query(s, {ZeroTime, 0}, {(MaxDay + 1) * TicksPerDay - 1}, {0}, {0, 1})
          \/ SetFilterAgain(s, {<<>>, <<"a">>})
          \/ ScanCall(s)
          \/ Scan(s)
          \/ ReadRLock(s)
          \/ Read(s)

LateSpec == LateInit /\ [][LateNext]_vars
(***************************************************************************)
(* What a scan is expected to yield, stated on the disk content            *)
(***************************************************************************)
\* the lines of a file, their newlines dropped
RECURSIVE SplitLines(_)
SplitLines(b) ==
    IF b = <<>> THEN <<>>
    ELSE LET i == IndexByte(b, "\n")
         IN  IF i < 0 THEN <<b>>
             ELSE <<SubSeq(b, 1, i)>> \o SplitLines(SubSeq(b, i + 2, Len(b)))

\* the lines of the partitions of `table` for the days d1 .. d2, in day order
RECURSIVE RangeLines(_, _, _)
RangeLines(d1, d2, table) ==
    IF d1 > d2 THEN <<>>
    ELSE SplitLines(files[<<d1, table>>]) \o RangeLines(d1 + 1, d2, table)

\* the lines of the calendar days of the range of scanner s
StreamLines(s) == RangeLines(getDir(sc[s].r.start), getDir(sc[s].r.end), sc[s].r.table)

\* the line is a record: a decimal integer, a space, a text
Decodes(line) ==
    /\ IndexByte(line, " ") >= 0
    /\ ParseInt(SubSeq(line, 1, IndexByte(line, " "))).ok

\* the instant of a record
RecordTime(line) == TimeUnix(ParseInt(SubSeq(line, 1, IndexByte(line, " "))).val)

\* the line decodes, is not before start, and contains the filter if there is one
Qualifies(line, start, filter) ==
    /\ Decodes(line)
    /\ RecordTime(line) >= start
    /\ (filter = <<>> \/ Contains(line, filter))

\* Q: the qualifying lines of the range of scanner s, in scan order
QualifyingLines(s) ==
    LET ok(line) == Qualifies(line, sc[s].r.start, sc[s].r.filter)
    IN  SelectSeq(StreamLines(s), ok)

IsPrefix(a, b) == Len(a) <= Len(b) /\ a = SubSeq(b, 1, Len(a))

\* Scan has returned false
Done(s) == sc[s].pc = "idle" /\ sc[s].ret = "false"

Plain(s) == sc[s].r.offset = 0 /\ sc[s].r.limit = 0 /\ sc[s].r.filter = <<>>

\* the line a scan yields for a save of (t, data)
SavedLine(t, data) == SubSeq(EncodeLine(t, data), 1, Len(EncodeLine(t, data)) - 1)

(***************************************************************************)
(* C1 (as claimed): when a save call has returned, on any exit path, it    *)
(* does not hold the exclusive lock.                                       *)
(***************************************************************************)
C1_LockReleasedOnReturn ==
    \A w \in Writers : wr[w].pc = "returned" => wHolder # w

(***************************************************************************)
(* C2 (as claimed): with size = 0 and any offset, a finished scan has      *)
(* yielded every qualifying line from position offset to the end.          *)
(***************************************************************************)
C2_SizeZeroUnlimited ==
    \A s \in Scanners :
        (Done(s) /\ sc[s].r.limit = sc[s].r.offset)
        => sc[s].emitted = SubSeq(QualifyingLines(s), sc[s].r.offset + 1,
                                  Len(QualifyingLines(s)))

(***************************************************************************)
(* C3 (as claimed): with start <= end and no offset, filter or limit, a    *)
(* finished scan has yielded, in day order, every record not before start  *)
(* of every partition of the days day(start) .. day(end); absent days add  *)
(* nothing.                                                                *)
(***************************************************************************)
C3_RangeComplete ==
    \A s \in Scanners :
        (Done(s) /\ Plain(s) /\ unreadable = {} /\ sc[s].r.start <= sc[s].r.end)
        => sc[s].emitted = QualifyingLines(s)

(***************************************************************************)
(* C4 (as claimed): the record decoded from the line save wrote for a      *)
(* second-resolution t and a text s has Time = t and Text = s.             *)
(***************************************************************************)
C4_RoundTrip ==
    \A s \in Scanners : \A c \in committed : \A i \in 1 .. Len(sc[s].emitted) :
        (c.t % TicksPerSec = 0 /\ sc[s].emitted[i] = SavedLine(c.t, c.data))
        => /\ Data(sc[s].emitted[i], "nil", "nil").dp.Time = c.t
           /\ Data(sc[s].emitted[i], "nil", "nil").dp.Text = c.data

\* Q[offset] .. Q[min(offset + size, |Q|) - 1] for scanner s
PageExpected(s) ==
    SubSeq(QualifyingLines(s), sc[s].r.offset + 1,
           Min(sc[s].r.limit, Len(QualifyingLines(s))))

(***************************************************************************)
(* C5: with size > 0, the lines Scan has returned true for are always a    *)
(* prefix of Q[offset] .. Q[min(offset + size, |Q|) - 1], and are all of   *)
(* them once Scan has returned false; Q holds only the lines that pass the *)
(* time floor and the filter, so rejected lines take no slot.              *)
(***************************************************************************)
C5_Pagination ==
    \A s \in Scanners :
        (sc[s].pc # "none" /\ sc[s].r.limit > sc[s].r.offset)
        => /\ IsPrefix(sc[s].emitted, PageExpected(s))
           /\ Done(s) => sc[s].emitted = PageExpected(s)

\* a finished scan that skipped a record for the offset, stopped at the limit
\* before the end of Q, and passed over a rejected line
C5_Witness ==
    \E s \in Scanners :
        /\ Done(s)
        /\ sc[s].r.offset > 0
        /\ sc[s].r.limit > sc[s].r.offset
        /\ Len(QualifyingLines(s)) > sc[s].r.limit
        /\ Len(sc[s].emitted) = sc[s].r.limit - sc[s].r.offset
        /\ ~Qualifies(StreamLines(s)[1], sc[s].r.start, sc[s].r.filter)

(***************************************************************************)
(* C6: a scan with no offset, limit or filter that has returned false has  *)
(* yielded every valid record not before start, whatever malformed lines   *)
(* lie between them, and its Error is set if a line of the range is        *)
(* malformed; Error, once set, stays set.                                  *)
(***************************************************************************)
C6_MalformedTolerance ==
    /\ [](\A s \in Scanners :
             (Done(s) /\ Plain(s))
             => /\ sc[s].emitted = QualifyingLines(s)
                /\ (\E i \in 1 .. Len(StreamLines(s)) : ~Decodes(StreamLines(s)[i]))
                   => sc[s].Error # "nil")
    /\ [][\A s \in Scanners : sc[s].Error # "nil" => sc'[s].Error # "nil"]_vars

\* a finished scan of a first partition holding a valid record, a malformed
\* line and a valid record: both records yielded, Error set
C6_Witness ==
    \E s \in Scanners :
        LET lines == SplitLines(files[<<0, "logs">>])
        IN  /\ Done(s) /\ Plain(s)
            /\ Len(lines) = 3
            /\ Qualifies(lines[1], sc[s].r.start, <<>>)
            /\ ~Decodes(lines[2])
            /\ Qualifies(lines[3], sc[s].r.start, <<>>)
            /\ SubSeq(sc[s].emitted, 1, 2) = <<lines[1], lines[3]>>
            /\ sc[s].Error # "nil"

(***************************************************************************)
(* C7 (as claimed): when an open failure other than "not exist" has made   *)
(* Scan return false, the scanner's Error is set.                          *)
(***************************************************************************)
C7_OpenFailureSurfaced ==
    \A s \in Scanners : (Done(s) /\ sc[s].b.err = "openErr") => sc[s].Error # "nil"

InSection(w) == wr[w].pc \in {"switch", "open", "append", "unlock"}

(***************************************************************************)
(* C9: while a save call is between the return of Lock and its Unlock, no  *)
(* other save call is there and no reader.Read is executing.               *)
(***************************************************************************)
C9_MutualExclusion ==
    \A w \in Writers :
        InSection(w)
        => /\ \A v \in Writers \ {w} : ~InSection(v)
           /\ \A s \in Scanners : sc[s].pc # "read"

\* a save call is appending while another save call and a reader pull of a
\* scan under way are waiting for the lock
C9_Witness ==
    \E w \in Writers, v \in Writers, s \in Scanners :
        /\ wr[w].pc = "append"
        /\ v # w /\ wr[v].pc = "lock"
        /\ sc[s].pc = "rlock" /\ sc[s].emitted # <<>>

(***************************************************************************)
(* C10 (as claimed): under fair scheduling a pending save call eventually  *)
(* acquires the exclusive lock and completes.                              *)
(***************************************************************************)
C10_NoWriterStarvation ==
    \A w \in Writers : (wr[w].pc = "lock") ~> (wr[w].pc = "returned")

(***************************************************************************)
(* C11: the process holds at most one write file handle open at any time,  *)
(* and when save has found the cache on another partition the cached       *)
(* handle is closed before MkdirAll and OpenFile run, whatever saves have  *)
(* succeeded or failed before.                                             *)
(***************************************************************************)
C11_SingleWriteHandle ==
    /\ Len(handles) <= 1
    /\ \A w \in Writers : wr[w].pc = "open" => handles = <<>>

\* a save is about to open the partition of the second day after a save to
\* the first day returned nil: the handle on the first day is closed
C11_Witness ==
    \E w \in Writers :
        /\ wr[w].pc = "open"
        /\ saved # <<>>
        /\ dbWritePath = saved[Len(saved)]
        /\ dbWritePath # getTablePath(wr[w].t, wr[w].table)
        /\ handles = <<>>

\* the number of save calls made so far
RECURSIVE Calls(_)
Calls(W) == IF W = {} THEN 0
            ELSE LET w == CHOOSE w \in W : TRUE IN wr[w].n + Calls(W \ {w})

\* the number of positions of q that are the first or differ from the one before
Runs(q) == Cardinality({i \in 1 .. Len(q) : i = 1 \/ q[i] # q[i - 1]})

RECURSIVE IsSubSeq(_, _)
IsSubSeq(a, b) ==
    IF a = <<>> THEN TRUE
    ELSE IF b = <<>> THEN FALSE
    ELSE IF Head(a) = Head(b) THEN IsSubSeq(Tail(a), Tail(b))
    ELSE IsSubSeq(a, Tail(b))

\* every line of the table, the partitions in calendar-day order, each in
\* file order
TableLines(table) == RangeLines(0, MaxDay, table)

(***************************************************************************)
(* C13: the lines a scan has emitted are, in the order emitted, lines of   *)
(* the table taken at increasing positions of its partitions laid out in   *)
(* calendar-day order and file order: days never decrease, a partition's   *)
(* lines keep their file order whatever their timestamps, no line is       *)
(* emitted twice; and what has been emitted is never reordered later.      *)
(***************************************************************************)
C13_Ordering ==
    /\ [](\A s \in Scanners :
             sc[s].pc # "none" => IsSubSeq(sc[s].emitted, TableLines(sc[s].r.table)))
    /\ [][\A s \in Scanners :
             sc[s].pc # "none" => IsPrefix(sc[s].emitted, sc'[s].emitted)]_vars

\* a finished scan emitted two records of one partition, the one appended
\* second with the earlier timestamp, and then a record of a later day
C13_Witness ==
    \E s \in Scanners : \E d \in Days :
        LET first == SplitLines(files[<<d, sc[s].r.table>>])
            em == sc[s].emitted
        IN  /\ Done(s)
            /\ Len(first) = 2 /\ Len(em) >= 3
            /\ SubSeq(em, 1, 2) = first
            /\ RecordTime(em[2]) < RecordTime(em[1])
            /\ RecordTime(em[3]) \div TicksPerDay > d

\* the step of scanner s takes a line from the tokenizer
Pulls(s) == sc[s].pc = "scan" /\ Len(sc'[s].b.data) < Len(sc[s].b.data)

(***************************************************************************)
(* C14: a Scan step emits only the line it has just pulled, and with a     *)
(* non-empty filter only if the whole line, timestamp digits included,     *)
(* contains the filter; a pulled record that is not before start, is past  *)
(* the offset and contains the filter is emitted, also when the match lies *)
(* in the timestamp only. The filter that counts is the one in force when  *)
(* the line is pulled, that is the last one SetFilter stored; lines        *)
(* emitted before stay emitted and no earlier line is emitted afterwards.  *)
(***************************************************************************)
C14_FilterSemantics ==
    [][\A s \in Scanners :
          LET f == sc[s].r.filter
              x == sc'[s].b.token
              em == sc[s].emitted
          IN  sc[s].pc # "none"
              => /\ IsPrefix(em, sc'[s].emitted)
                 /\ sc'[s].emitted # em
                    => /\ Pulls(s)
                       /\ sc'[s].emitted = Append(em, x)
                       /\ f = <<>> \/ Contains(x, f)
                 /\ (/\ Pulls(s)
                     /\ Decodes(x) /\ RecordTime(x) >= sc[s].r.start
                     /\ f = <<>> \/ Contains(x, f)
                     /\ sc[s].r.index >= sc[s].r.offset)
                    => sc'[s].emitted = Append(em, x)]_vars

\* the first partition holds "0 a", "0 a", "1 a"; the first line was emitted
\* under a filter it contains, then the filter was set to "1": the second
\* line was skipped and the third emitted for the 1 of its timestamp, the
\* first line still emitted
C14_Witness ==
    \E s \in Scanners :
        LET lines == SplitLines(files[<<0, "logs">>])
        IN  /\ sc[s].pc = "idle" /\ sc[s].ret = "true"
            /\ sc[s].r.start = 0 /\ sc[s].r.offset = 0
            /\ lines = <<SavedLine(0, <<"a">>), SavedLine(0, <<"a">>),
                         SavedLine(TimeUnix(1), <<"a">>)>>
            /\ sc[s].emitted = <<lines[1], lines[3]>>
            /\ sc[s].r.filter = <<"1">>
            /\ ~Contains(<<" ", "a">>, sc[s].r.filter)

(***************************************************************************)
(* C15 (as claimed): every line a scan made by Query(table, start, end,    *)
(* ...) has emitted decodes to a record whose timestamp t satisfies        *)
(* start <= t <= end.                                                      *)
(***************************************************************************)
C15_QueryBounds ==
    \A s \in Scanners : \A i \in 1 .. Len(sc[s].emitted) :
        /\ Decodes(sc[s].emitted[i])
        /\ sc[s].r.start <= RecordTime(sc[s].emitted[i])
        /\ RecordTime(sc[s].emitted[i]) <= sc[s].r.end

(***************************************************************************)
(* C16 (as claimed): whatever the start of the query, no line that fails   *)
(* to decode is among the lines Scan has returned true for, and the slots  *)
(* counted against offset and limit are never more than the lines of the   *)
(* table that decode.                                                      *)
(***************************************************************************)
C16_MalformedNeverEmitted ==
    \A s \in Scanners :
        sc[s].pc # "none"
        => /\ \A i \in 1 .. Len(sc[s].emitted) : Decodes(sc[s].emitted[i])
           /\ sc[s].r.index <= Len(SelectSeq(TableLines(sc[s].r.table), Decodes))

\* the partitions a reader with the given start opens up to the instant
\* `last`, one per step of 24 hours from start, in that order
RECURSIVE Visited(_, _, _)
Visited(t, last, table) ==
    IF t > last THEN <<>>
    ELSE (IF <<t \div TicksPerDay, table>> \in present
          THEN <<<<t \div TicksPerDay, table>>>> ELSE <<>>)
         \o Visited(t + TicksPerDay, last, table)

\* the contents of the partitions of q, one after the other
RECURSIVE Contents(_)
Contents(q) == IF q = <<>> THEN <<>> ELSE files[Head(q)] \o Contents(Tail(q))

(***************************************************************************)
(* C17 (as claimed): once a Read call of a reader has returned io.EOF,     *)
(* with the carry-over bytes if there were any, every later Read call      *)
(* returns no byte and io.EOF.                                             *)
(***************************************************************************)
C17_EofOnce ==
    \A i \in 1 .. Len(rd.late) : rd.late[i].p = <<>> /\ rd.late[i].err = "EOF"

(***************************************************************************)
(* C18: with every partition readable and buffers of any length from 1,    *)
(* the bytes the Read calls return are at any time a prefix of the         *)
(* contents, in calendar-day order, of the partitions the reader opens,    *)
(* and are all of them when the first io.EOF is returned; every call       *)
(* before that one returns exactly len(p) bytes.                           *)
(***************************************************************************)
C18_Gapless ==
    LET all == Contents(Visited(rd.r.start, rd.r.end, rd.r.table))
    IN  rd.pc = "open"
        => /\ rd.exact
           /\ IsPrefix(rd.out, all)
           /\ rd.eof => rd.out = all

\* the first io.EOF came with carry-over bytes, after calls with buffers of
\* different lengths had crossed an absent day and the boundary of two
\* partitions of two lines each
C18_Witness ==
    /\ rd.pc = "open" /\ rd.eof
    /\ rd.r.buf # <<>>
    /\ present = {<<0, "logs">>, <<2, "logs">>}
    /\ Len(SplitLines(files[<<0, "logs">>])) = 2
    /\ Len(SplitLines(files[<<2, "logs">>])) = 2
    /\ rd.out = files[<<0, "logs">>] \o files[<<2, "logs">>]

\* the number of lines in the partitions of P
RECURSIVE LineCount(_)
LineCount(P) ==
    IF P = {} THEN 0
    ELSE LET p == CHOOSE p \in P : TRUE
         IN  Len(SplitLines(files[p])) + LineCount(P \ {p})

(***************************************************************************)
(* C19: a step changes the content of a partition only by appending, for   *)
(* a save call that goes on to return nil, the line "<unix seconds of t>   *)
(* <text>\n" to the partition of (local day of t, table), every other      *)
(* partition left as it is; and the lines on disk are as many as the save  *)
(* calls that have returned nil or are about to, so a call that failed in  *)
(* MkdirAll or OpenFile has appended nothing.                              *)
(***************************************************************************)
C19_AppendOnlyFrame ==
    /\ [](LineCount(Paths)
            = Len(saved) + Cardinality({w \in Writers : wr[w].pc = "unlock"}))
    /\ [][\A p \in Paths :
             files'[p] # files[p]
             => \E w \in Writers :
                   /\ wr[w].pc = "append" /\ wr'[w].pc = "unlock"
                   /\ p = <<wr[w].t \div TicksPerDay, wr[w].table>>
                   /\ files'[p] = files[p] \o FormatInt(wr[w].t \div TicksPerSec)
                                           \o <<" ">> \o wr[w].data \o <<"\n">>
                   /\ \A q \in Paths \ {p} : files'[q] = files[q]]_vars

\* two saves to the same day and one to another day have returned nil, each
\* line at the end of its partition, and a later save has failed in
\* OpenFile and left the partitions as they were
C19_Witness ==
    \E w \in Writers, p \in Paths, q \in Paths :
        /\ p # q
        /\ saved = <<p, p, q>>
        /\ Len(SplitLines(files[p])) = 2
        /\ Len(SplitLines(files[q])) = 1
        /\ wr[w].pc = "returned" /\ wr[w].ret = "openErr"

(***************************************************************************)
(* C20 (as claimed): once a Scan call has returned false, every later Scan *)
(* call of the scanner returns false and emits no record, whatever         *)
(* SetFilter calls and saves happen in between.                            *)
(***************************************************************************)
C20_EndOfStreamAbsorbing ==
    [][\A s \in Scanners :
          sc[s].ret = "false"
          => sc'[s].ret = "false" /\ sc'[s].emitted = sc[s].emitted]_vars
=============================================================================
